---------------------------- MODULE Spec2Model ----------------------------
(***************************************************************************)
(* Model of memflow's win32 module-list walker (win32/process.rs), the     *)
(* x86 PAE low-stub scanner (kernel/lowstub/x86pae.rs), the                *)
(* Win32ProcessInfo accessors and the Pointer32 conversions                *)
(* (types/pointer32.rs).                                                   *)
(***************************************************************************)
EXTENDS Integers, Sequences, FiniteSets, TLC

VARIABLES
    \* ---- Win32ModuleListInfo::module_entry_list_callback ----
    vmem,         \* guest virtual memory: address -> pointer stored there, or Unmapped
    module_base,  \* Win32ModuleListInfo.module_base
    cbkind,       \* "user": an arbitrary AddressCallback; "vec": module_entry_list's Vec
    wpc,          \* position of the walk: "loop" | "done"
    list_entry,   \* the local list_entry
    iter,         \* number of completed iterations of `for _ in 0..MAX_ITER_COUNT`
    ncalls,       \* callback invocations so far
    nreads,       \* virt_read_addr_arch calls so far (successful or not)
    lastcb,       \* address handed to the most recent callback invocation
    lastret,      \* what the most recent callback invocation returned
    lastread,     \* address of the most recent Flink read
    passed,       \* how often each address was handed to the callback
    wresult,      \* "none" while walking, then "Ok" or "Err"
    \* ---- lowstub::x86pae::check_page on one buffer ----
    cp_addr,      \* the addr argument
    cp_mem,       \* the mem argument (a byte slice)
    cp_pc,        \* "call" before check_page has run, "done" after
    cp_ret,       \* the returned bool
    \* ---- lowstub::x86pae::find ----
    image,        \* the mem argument of find (a byte slice)
    fpc,          \* position of the scan: "scan" | "done"
    fpos,         \* index of the next chunk the page_chunks iterator yields
    fvisited,     \* addresses of the chunks handed to check_page so far, as a count
    flast,        \* address of the chunk handed to check_page last
    fresult,      \* [kind |-> "none"], then the returned Result<StartBlock>
    \* ---- Win32ProcessInfo ----
    proc_info,    \* <<>> or <<the Win32ProcessInfo the process walker built>>
    pcall,        \* the last accessor call on it: [op, ret]
    \* ---- Pointer32 ----
    ptr_op,       \* the last Pointer32 operation
    ptr_in,       \* its argument
    ptr_out,      \* its result
    \* ---- Pointer32 arithmetic ----
    ar_op,        \* the last operation: "at" | "add" | "sub"
    ar_in,        \* its operands: [ptr, i, size, build]
    ar_out,       \* the pointer it returned, or the panic
    \* ---- Win32Process::main_module_info, module_info(name) ----
    module_list,  \* what self.module_list() returns
    section_base, \* proc_info.section_base
    mcall,        \* the last lookup: [op, name, ret]
    \* ---- Win32Process::module_address_list_callback ----
    target_arch,  \* the target_arch argument: <<>> or <<arch>>
    module_infos, \* the (info, arch) pairs the iterator has yet to yield
    cur_arch,     \* arch of the list being walked
    false_seen,   \* the callback returned false during an earlier list
    lresult       \* "none" while enumerating, then "Ok" or "Err"

walkVars == <<vmem, module_base, cbkind, wpc, list_entry, iter, ncalls, nreads,
              lastcb, lastret, lastread, passed, wresult>>

pageVars == <<cp_addr, cp_mem, cp_pc, cp_ret>>

findVars == <<image, fpc, fpos, fvisited, flast, fresult>>

procVars == <<proc_info, pcall>>

ptrVars == <<ptr_op, ptr_in, ptr_out>>

arithVars == <<ar_op, ar_in, ar_out>>

modsVars == <<module_list, section_base, mcall>>

listsVars == <<target_arch, module_infos, cur_arch, false_seen, lresult>>

vars == <<walkVars, pageVars, findVars, procVars, ptrVars, arithVars,
          modsVars, listsVars>>

----------------------------------------------------------------------------
(* Guest memory of the list walk                                           *)

\* process.rs:30
MAX_ITER_COUNT == 65536

\* Marker for "no address yet"
NoAddr == -1

\* A read of this address fails (the page is not mapped)
Unmapped == -2

\* Addresses that hold a LIST_ENTRY in the modelled guest
HeadAddr == 8
EntryAddr == 16
\* An aligned, non-null address that no page maps
WildAddr == 24

ListAddrs == {HeadAddr, EntryAddr}

\* HeadAddr | 0b100 : the NT 4.0 style misaligned end marker
MisalignedLink == 12

\* Values a Flink field can hold
LinkValues == {0, HeadAddr, EntryAddr, WildAddr, MisalignedLink}

\* Address::is_null
is_null(a) == a = 0

\* mem.virt_read_addr_arch(arch, a): the pointer stored at a, or Unmapped on failure
virt_read_addr_arch(a) ==
    IF a \in DOMAIN vmem THEN vmem[a] ELSE Unmapped

\* A break condition that forgets the alignment test
IsListEndNoAlign(next, base) ==
    is_null(next) \/ next = base

\* process.rs:99-101, the break condition after the Flink read
IsListEnd(next, base) ==
    is_null(next) \/ (next % 8) # 0 \/ next = base

\* A loop bound that is off by one (0..=MAX_ITER_COUNT)
LoopGuardOffByOne(i) == i <= MAX_ITER_COUNT

\* process.rs:93, the loop bound
LoopGuard(i) == i < MAX_ITER_COUNT

\* A walk that treats a failed read as the end of the list
ReadFailureSwallowed == "Ok"

\* process.rs:97, the `?` after the read: a failed read is the walk's result
ReadFailureResult == "Err"

\* What callback.call(proc, list_entry) can return: a Vec-backed callback
\* (module_entry_list, process.rs:80-81) pushes and returns true; any other
\* callback decides for itself.
CallbackReturns == IF cbkind = "vec" THEN {TRUE} ELSE {TRUE, FALSE}

WalkInit ==
    /\ vmem \in [ListAddrs -> LinkValues \cup {Unmapped}]
    /\ module_base \in ListAddrs
    /\ cbkind \in {"user", "vec"}
    /\ wpc = "loop"
    /\ list_entry = module_base
    /\ iter = 0
    /\ ncalls = 0
    /\ nreads = 0
    /\ lastcb = NoAddr
    /\ lastret = TRUE
    /\ lastread = NoAddr
    /\ passed = [a \in LinkValues |-> 0]
    /\ wresult = "none"

\* The callback invocation of one iteration (process.rs:94)
Called(ret) ==
    /\ ncalls' = ncalls + 1
    /\ lastcb' = list_entry
    /\ lastret' = ret
    /\ passed' = [passed EXCEPT ![list_entry] = @ + 1]

\* process.rs:94-96: the callback returns false, break, Ok(())
WalkCallbackStops ==
    /\ wpc = "loop"
    /\ LoopGuard(iter)
    /\ FALSE \in CallbackReturns
    /\ Called(FALSE)
    /\ wpc' = "done"
    /\ wresult' = "Ok"
    /\ UNCHANGED <<vmem, module_base, cbkind, list_entry, iter, nreads, lastread>>

\* process.rs:97: the Flink read fails, `?` returns the error
WalkReadFails ==
    /\ wpc = "loop"
    /\ LoopGuard(iter)
    /\ TRUE \in CallbackReturns
    /\ Called(TRUE)
    /\ virt_read_addr_arch(list_entry) = Unmapped
    /\ nreads' = nreads + 1
    /\ lastread' = list_entry
    /\ wpc' = "done"
    /\ wresult' = ReadFailureResult
    /\ UNCHANGED <<vmem, module_base, cbkind, list_entry, iter>>

\* process.rs:97-104: the Flink read succeeds and the new list_entry ends the walk
WalkBreaks ==
    /\ wpc = "loop"
    /\ LoopGuard(iter)
    /\ TRUE \in CallbackReturns
    /\ Called(TRUE)
    /\ virt_read_addr_arch(list_entry) # Unmapped
    /\ nreads' = nreads + 1
    /\ lastread' = list_entry
    /\ list_entry' = virt_read_addr_arch(list_entry)
    /\ IsListEnd(list_entry', module_base)
    /\ wpc' = "done"
    /\ wresult' = "Ok"
    /\ UNCHANGED <<vmem, module_base, cbkind, iter>>

\* process.rs:97-105: the Flink read succeeds and the loop goes on
WalkAdvances ==
    /\ wpc = "loop"
    /\ LoopGuard(iter)
    /\ TRUE \in CallbackReturns
    /\ Called(TRUE)
    /\ virt_read_addr_arch(list_entry) # Unmapped
    /\ nreads' = nreads + 1
    /\ lastread' = list_entry
    /\ list_entry' = virt_read_addr_arch(list_entry)
    /\ ~IsListEnd(list_entry', module_base)
    /\ iter' = iter + 1
    /\ UNCHANGED <<vmem, module_base, cbkind, wpc, wresult>>

\* process.rs:93, 107: the range 0..MAX_ITER_COUNT is exhausted, Ok(())
WalkExhausted ==
    /\ wpc = "loop"
    /\ ~LoopGuard(iter)
    /\ wpc' = "done"
    /\ wresult' = "Ok"
    /\ UNCHANGED <<vmem, module_base, cbkind, list_entry, iter, ncalls, nreads,
                   lastcb, lastret, lastread, passed>>

WalkNext ==
    \/ WalkCallbackStops
    \/ WalkReadFails
    \/ WalkBreaks
    \/ WalkAdvances
    \/ WalkExhausted

\* The walk is not running: used by the specifications of the other components
WalkIdle ==
    /\ vmem = [a \in ListAddrs |-> 0]
    /\ module_base = HeadAddr
    /\ cbkind = "user"
    /\ wpc = "off"
    /\ list_entry = NoAddr
    /\ iter = 0
    /\ ncalls = 0
    /\ nreads = 0
    /\ lastcb = NoAddr
    /\ lastret = TRUE
    /\ lastread = NoAddr
    /\ passed = [a \in LinkValues |-> 0]
    /\ wresult = "none"

----------------------------------------------------------------------------
(* 64-bit unsigned integers, as four 16-bit limbs, least significant first *)

Limb == 65536

Zero64 == <<0, 0, 0, 0>>

\* `n as u64` / Address::as_u64 for a value below 2^31
as_u64(n) == <<n % Limb, (n \div Limb) % Limb, 0, 0>>

\* u64 addition modulo 2^64
add64(x, y) ==
    LET s1 == x[1] + y[1]
        s2 == x[2] + y[2] + (s1 \div Limb)
        s3 == x[3] + y[3] + (s2 \div Limb)
        s4 == x[4] + y[4] + (s3 \div Limb)
    IN  <<s1 % Limb, s2 % Limb, s3 % Limb, s4 % Limb>>

\* u64::from_le_bytes on a chunk of eight bytes
from_le_bytes(b) ==
    <<b[1] + 256 * b[2], b[3] + 256 * b[4], b[5] + 256 * b[6], b[7] + 256 * b[8]>>

\* byte j (0 = least significant) of a u64
ByteOf(x, j) ==
    LET limb == x[(j \div 2) + 1]
    IN  IF j % 2 = 0 THEN limb % 256 ELSE limb \div 256

----------------------------------------------------------------------------
(* Byte slices.  A slice is [len, pages]: len bytes, all zero except the   *)
(* pages named in `pages`, each described by the signature it was stamped  *)
(* with (the address and the distance between the four frames it names)    *)
(* and at most one edited quadword.                                        *)

\* architecture::x86_pae::page_size(), x86pae.rs:23
page_size == 4096

NoSig == -1

\* Quadword q of a stub page stamped for physical address a whose entries
\* name frames `stride` bytes apart; the PAE low stub has stride 4096
SigQuad(a, stride, q) == add64(as_u64(a + q * stride), as_u64(4097))

\* byte-reversed x
Swapped(x) == from_le_bytes([j \in 1..8 |-> ByteOf(x, 8 - j)])

EditKinds == {"zero", "one", "sig", "plus1", "high", "swapped"}

\* The value an edit of kind k writes into quadword q of a page stamped for a
EditValue(k, a, stride, q) ==
    CASE k = "zero"    -> Zero64
      [] k = "one"     -> <<1, 0, 0, 0>>
      [] k = "sig"     -> SigQuad(a, stride, q)
      [] k = "plus1"   -> add64(SigQuad(a, stride, q), <<1, 0, 0, 0>>)
      [] k = "high"    -> add64(SigQuad(a, stride, q), <<0, 0, 0, 256>>)
      [] k = "swapped" -> Swapped(SigQuad(a, stride, q))

\* Quadword q of a page with descriptor d = [sig, stride, edit]
PageQuad(d, q) ==
    IF d.edit # <<>> /\ d.edit[1] = q
    THEN EditValue(d.edit[2], IF d.sig = NoSig THEN 0 ELSE d.sig, d.stride, q)
    ELSE IF d.sig = NoSig \/ q >= 4 THEN Zero64 ELSE SigQuad(d.sig, d.stride, q)

\* mem[off] of a slice
SliceByte(s, off) ==
    LET p == off \div page_size
        o == off % page_size
    IN  IF p \in DOMAIN s.pages
        THEN ByteOf(PageQuad(s.pages[p], o \div 8), o % 8)
        ELSE 0

----------------------------------------------------------------------------
(* lowstub::x86pae::check_page                                             *)

\* The expected value with a shift of 8 in place of 9
ExpectedQuadShift8(addr, i) ==
    add64(add64(as_u64(addr), as_u64((i * 8) * 256)), as_u64(4097))

\* x86pae.rs:13, the value quadword i < 4 is compared with:
\* addr.as_u64() + ((i as u64 * 8) << 9) + 0x1001.  u64 addition wraps in
\* release builds and panics in debug builds; for a slice of memory the sum
\* stays far below 2^64.
ExpectedQuad(addr, i) ==
    add64(add64(as_u64(addr), as_u64((i * 8) * 512)), as_u64(4097))

\* x86pae.rs:11-12, chunk i of mem.chunks_exact(8) as a little-endian u64
ChunkQuad(s, i) ==
    from_le_bytes([j \in 1..8 |-> SliceByte(s, 8 * i + (j - 1))])

\* A test that looks at the four signature quadwords only
ChunkRejectedNoTail(addr, s, i) ==
    (i < 4 /\ ChunkQuad(s, i) # ExpectedQuad(addr, i))

\* x86pae.rs:13-14, the test that makes check_page return false at chunk i
ChunkRejected(addr, s, i) ==
    \/ (i < 4 /\ ChunkQuad(s, i) # ExpectedQuad(addr, i))
    \/ (i >= 4 /\ ChunkQuad(s, i) # Zero64)

\* x86pae.rs:10-20: false at the first rejected chunk of chunks_exact(8)
\* (which drops a trailing partial chunk), true when there is none
check_page(addr, s) ==
    \A i \in 0 .. (s.len \div 8) - 1 : ~ChunkRejected(addr, s, i)

----------------------------------------------------------------------------
(* check_page applied to one buffer                                        *)

\* Page addresses the buffers are tested for
PageAddrs == {0, 4096, 1703936}

EditedQuads == {0, 1, 2, 3, 4, 5, 511}

Strides == {4096, 8192}

PageDescs ==
    [sig : PageAddrs \cup {NoSig},
     stride : Strides,
     edit : {<<>>} \cup (EditedQuads \X EditKinds)]

FullPages == {[len |-> page_size, pages |-> (0 :> d)] : d \in PageDescs}

PageIdle ==
    /\ cp_addr = NoAddr
    /\ cp_mem = [len |-> 0, pages |-> <<>>]
    /\ cp_pc = "off"
    /\ cp_ret = FALSE

PageInit ==
    /\ cp_addr \in PageAddrs
    /\ cp_mem \in FullPages
    /\ cp_pc = "call"
    /\ cp_ret = FALSE

CheckPage ==
    /\ cp_pc = "call"
    /\ cp_pc' = "done"
    /\ cp_ret' = check_page(cp_addr, cp_mem)
    /\ UNCHANGED <<cp_addr, cp_mem>>

\* Lengths of the buffers shorter than the four signature quadwords
ShortLens == {0, 1, 7, 8, 16, 24, 31}

\* The buffers shorter than 32 bytes: the first bytes of a page
ShortBuffers ==
    {[len |-> n, pages |-> (0 :> d)] : n \in ShortLens, d \in PageDescs}

\* check_page is called on a buffer shorter than 32 bytes
ShortInit ==
    /\ cp_addr \in PageAddrs
    /\ cp_mem \in ShortBuffers
    /\ cp_pc = "call"
    /\ cp_ret = FALSE

----------------------------------------------------------------------------
(* lowstub::x86pae::find                                                   *)

\* "lowstub < 16M", x86pae.rs:30: the size of the low-stub region, 16 MiB
LowStubSize == 16777216

\* mem.page_chunks(Address::from(0), page_size): chunk k starts at address
\* k * page_size and holds the bytes of mem up to the next page boundary;
\* the last chunk holds what is left.
NumChunks(s) == (s.len + page_size - 1) \div page_size

ChunkAddr(k) == k * page_size

PageChunk(s, k) ==
    [len   |-> IF (k + 1) * page_size <= s.len THEN page_size
                                               ELSE s.len - k * page_size,
     pages |-> IF k \in DOMAIN s.pages THEN (0 :> s.pages[k]) ELSE <<>>]

\* x86pae.rs:25-29
StartBlock(a) ==
    [kind |-> "Ok", arch |-> "X86Pae", kernel_hint |-> 0, dtb |-> a]

\* x86pae.rs:30
NotFound ==
    [kind |-> "Err", err |-> "Initialization"]

\* The most pages of an image that are not all zero
MaxStamps == 2

\* Page indices that may be stamped: the first page, the page at 0x1A0000,
\* the last page below 16 MiB and the first page at 16 MiB
StampPages == {0, 416, 4095, 4096}

\* What a stamped page p can hold: the low stub of its own address, a stub
\* whose entries are 8192 apart, or the low stub with a set bit in its last
\* quadword
StampDescs(p) ==
    {[sig |-> p * page_size, stride |-> 4096, edit |-> <<>>],
     [sig |-> p * page_size, stride |-> 8192, edit |-> <<>>],
     [sig |-> p * page_size, stride |-> 4096, edit |-> <<511, "one">>]}

\* Image lengths: empty, one page, one page and four bytes, the stub page cut
\* after 16 bytes, up to and including the stub page, 16 MiB, 16 MiB and a page
ImageLens ==
    {0, page_size, page_size + 4, 416 * page_size + 16, 417 * page_size,
     LowStubSize, LowStubSize + page_size}

Images ==
    {[len |-> n, pages |-> f] :
        n \in ImageLens,
        f \in UNION {{g \in [S -> UNION {StampDescs(p) : p \in S}] :
                          \A p \in S : g[p] \in StampDescs(p)} :
                     S \in {T \in SUBSET StampPages : Cardinality(T) <= MaxStamps}}}

FindIdle ==
    /\ image = [len |-> 0, pages |-> <<>>]
    /\ fpc = "off"
    /\ fpos = 0
    /\ fvisited = 0
    /\ flast = NoAddr
    /\ fresult = [kind |-> "none"]

FindInit ==
    /\ image \in Images
    /\ fpc = "scan"
    /\ fpos = 0
    /\ fvisited = 0
    /\ flast = NoAddr
    /\ fresult = [kind |-> "none"]

\* x86pae.rs:24: the closure rejects the next chunk, the iterator moves on
FindRejects ==
    /\ fpc = "scan"
    /\ fpos < NumChunks(image)
    /\ check_page(ChunkAddr(fpos), PageChunk(image, fpos)) = FALSE
    /\ fvisited' = fvisited + 1
    /\ flast' = ChunkAddr(fpos)
    /\ fpos' = fpos + 1
    /\ UNCHANGED <<image, fpc, fresult>>

\* x86pae.rs:24-29: the closure accepts the next chunk, find returns its address
FindAccepts ==
    /\ fpc = "scan"
    /\ fpos < NumChunks(image)
    /\ check_page(ChunkAddr(fpos), PageChunk(image, fpos)) = TRUE
    /\ fvisited' = fvisited + 1
    /\ flast' = ChunkAddr(fpos)
    /\ fpos' = fpos + 1
    /\ fpc' = "done"
    /\ fresult' = StartBlock(ChunkAddr(fpos))
    /\ UNCHANGED image

\* x86pae.rs:30: the iterator is exhausted
FindExhausted ==
    /\ fpc = "scan"
    /\ fpos = NumChunks(image)
    /\ fpc' = "done"
    /\ fresult' = NotFound
    /\ UNCHANGED <<image, fpos, fvisited, flast>>

FindNext ==
    \/ FindRejects
    \/ FindAccepts
    \/ FindExhausted

----------------------------------------------------------------------------
(* Win32ProcessInfo                                                        *)

\* process.rs:59-69, Win32ModuleListInfo::with_base; the offsets table is
\* the one of the architecture
with_base(base, arch) ==
    [module_base |-> base, offsets |-> arch]

\* Values of EPROCESS.Wow64Process; 0 for a native process
Wow64Values == {0, 28672, 32768, 36864}

\* Heads of the native and of the WoW64 InLoadOrderModuleList
NativeHeads == {4096, 4112, 4128}

Wow64Heads == {8192, 8208, 8224}

\* The process walker's construction of a Win32ProcessInfo: proc_arch is x86
\* for a WoW64 process on x64, module_info_native is built from the native
\* PEB, module_info_wow64 iff the process is a WoW64 process.
process_info_from_eprocess(w, nb, wb) ==
    [wow64              |-> w,
     sys_arch           |-> "x64",
     proc_arch          |-> IF w # 0 THEN "x86" ELSE "x64",
     module_info_native |-> with_base(nb, "x64"),
     module_info_wow64  |-> IF w # 0 THEN <<with_base(wb, "x86")>> ELSE <<>>]

\* Option::unwrap
unwrap(o) ==
    IF o = <<>> THEN [kind |-> "panic"] ELSE [kind |-> "value", v |-> o[1]]

\* module_info with its test inverted
module_info_inverted(pi) ==
    IF is_null(pi.wow64)
    THEN unwrap(pi.module_info_wow64)
    ELSE [kind |-> "value", v |-> pi.module_info_native]

\* process.rs:195-201
module_info(pi) ==
    IF ~is_null(pi.wow64)
    THEN unwrap(pi.module_info_wow64)
    ELSE [kind |-> "value", v |-> pi.module_info_native]

\* process.rs:203-205
module_info_native(pi) ==
    [kind |-> "value", v |-> pi.module_info_native]

\* process.rs:207-209
module_info_wow64(pi) ==
    [kind |-> "value", v |-> pi.module_info_wow64]

ProcIdle ==
    /\ proc_info = <<>>
    /\ pcall = [op |-> "none"]

ProcessInfoFromEprocess ==
    /\ proc_info = <<>>
    /\ \E w \in Wow64Values, nb \in NativeHeads, wb \in Wow64Heads :
           proc_info' = <<process_info_from_eprocess(w, nb, wb)>>
    /\ UNCHANGED pcall

CallModuleInfo ==
    /\ proc_info # <<>>
    /\ pcall' = [op |-> "module_info", ret |-> module_info(proc_info[1])]
    /\ UNCHANGED proc_info

CallModuleInfoNative ==
    /\ proc_info # <<>>
    /\ pcall' = [op |-> "module_info_native", ret |-> module_info_native(proc_info[1])]
    /\ UNCHANGED proc_info

CallModuleInfoWow64 ==
    /\ proc_info # <<>>
    /\ pcall' = [op |-> "module_info_wow64", ret |-> module_info_wow64(proc_info[1])]
    /\ UNCHANGED proc_info

ProcNext ==
    \/ ProcessInfoFromEprocess
    \/ CallModuleInfo
    \/ CallModuleInfoNative
    \/ CallModuleInfoWow64

----------------------------------------------------------------------------
(* Pointer32: a u32 address, as two 16-bit limbs, least significant first  *)

\* u32::max_value() as u64
u32_max_as_u64 == <<65535, 65535, 0, 0>>

\* x < y on u64
lt64(x, y) ==
    \E i \in 1..4 : x[i] < y[i] /\ \A j \in (i + 1)..4 : x[j] = y[j]

\* x <= y on u64
le64(x, y) == x = y \/ lt64(x, y)

\* `x as u32` on a u64, Address::as_u32: the low 32 bits
as_u32(x) == <<x[1], x[2]>>

\* pointer32.rs:182-184, Pointer32::as_u64
Pointer32_as_u64(p) == <<p.address[1], p.address[2], 0, 0>>

\* A bound test with < in place of <=
FitsStrict(address) == lt64(address, u32_max_as_u64)

\* pointer32.rs:308, 325: the bound test of both conversions
Fits(address) == le64(address, u32_max_as_u64)

\* pointer32.rs:307-316, TryFrom<u64>
try_from_u64(address) ==
    IF Fits(address)
    THEN [kind |-> "Ok", ptr |-> [address |-> as_u32(address)]]
    ELSE [kind |-> "Err", err |-> "Bounds"]

\* pointer32.rs:324-333, TryFrom<Address>
try_from_address(address) ==
    IF Fits(address)
    THEN [kind |-> "Ok", ptr |-> [address |-> as_u32(address)]]
    ELSE [kind |-> "Err", err |-> "Bounds"]

\* Limbs the 64-bit arguments are built from
LimbSamples == {0, 1, 4096, 65535}

U64Samples == LimbSamples \X LimbSamples \X LimbSamples \X LimbSamples

PtrIdle ==
    /\ ptr_op = "none"
    /\ ptr_in = Zero64
    /\ ptr_out = [kind |-> "none"]

TryFromU64 ==
    \E x \in U64Samples :
        /\ ptr_op' = "try_from_u64"
        /\ ptr_in' = x
        /\ ptr_out' = try_from_u64(x)

TryFromAddress ==
    \E x \in U64Samples :
        /\ ptr_op' = "try_from_address"
        /\ ptr_in' = x
        /\ ptr_out' = try_from_address(x)

PtrNext ==
    \/ TryFromU64
    \/ TryFromAddress

----------------------------------------------------------------------------
(* Pointer32 arithmetic: at, Add<usize>, Sub<usize>                        *)

\* The builds of the crate: arithmetic overflow panics with overflow checks
\* on (debug) and wraps without them (release)
Builds == {"debug", "release"}

\* size_of::<T>() for T = u8, u32, u64
SizeOfT == {1, 4, 8}

\* x * k on usize (64 bits), k a small factor: the product modulo 2^64 and
\* whether it exceeded 64 bits
mul_usize(x, k) ==
    LET p1 == x[1] * k
        p2 == x[2] * k + p1 \div Limb
        p3 == x[3] * k + p2 \div Limb
        p4 == x[4] * k + p3 \div Limb
    IN  [val |-> <<p1 % Limb, p2 % Limb, p3 % Limb, p4 % Limb>>,
         overflow |-> p4 \div Limb # 0]

\* a + b on u32: the sum modulo 2^32 and whether it exceeded 32 bits
add_u32(a, b) ==
    LET s1 == a[1] + b[1]
        s2 == a[2] + b[2] + s1 \div Limb
    IN  [val |-> <<s1 % Limb, s2 % Limb>>, overflow |-> s2 \div Limb # 0]

\* a - b on u32: the difference modulo 2^32 and whether it went below zero
sub_u32(a, b) ==
    LET d1 == a[1] - b[1]
        d2 == a[2] - b[2] - (IF d1 < 0 THEN 1 ELSE 0)
    IN  [val |-> <<(d1 + Limb) % Limb, (d2 + Limb) % Limb>>,
         overflow |-> d2 < 0]

Panic == [kind |-> "Panic"]

\* An offset that forgets the element size
scaled_offset_unscaled(i, size, build) ==
    [kind |-> "Ok", v |-> as_u32(i)]

\* pointer32.rs:232, 362, 373: `(i * size_of::<T>()) as u32`
scaled_offset(i, size, build) ==
    LET m == mul_usize(i, size)
    IN  IF m.overflow /\ build = "debug"
        THEN Panic
        ELSE [kind |-> "Ok", v |-> as_u32(m.val)]

\* pointer32.rs:231-237, Pointer32::at
at(p, i, size, build) ==
    LET off == scaled_offset(i, size, build)
    IN  IF off.kind = "Panic"
        THEN Panic
        ELSE LET s == add_u32(p.address, off.v)
             IN  IF s.overflow /\ build = "debug"
                 THEN Panic
                 ELSE [kind |-> "Ok", ptr |-> [address |-> s.val]]

\* pointer32.rs:361-367, ops::Add<usize>
add(p, other, size, build) ==
    LET off == scaled_offset(other, size, build)
    IN  IF off.kind = "Panic"
        THEN Panic
        ELSE LET s == add_u32(p.address, off.v)
             IN  IF s.overflow /\ build = "debug"
                 THEN Panic
                 ELSE [kind |-> "Ok", ptr |-> [address |-> s.val]]

\* pointer32.rs:372-378, ops::Sub<usize>
sub(p, other, size, build) ==
    LET off == scaled_offset(other, size, build)
    IN  IF off.kind = "Panic"
        THEN Panic
        ELSE LET d == sub_u32(p.address, off.v)
             IN  IF d.overflow /\ build = "debug"
                 THEN Panic
                 ELSE [kind |-> "Ok", ptr |-> [address |-> d.val]]

\* Limbs the pointers are built from: 0x1000, 0xFFFF_FFFC, 0xFFFF_FFFF, ...
PtrLimbSamples == {0, 4096, 65532, 65535}

\* pointer32.rs:292-300, From<u32>: the pointers the operations are applied to
PtrSamples == {[address |-> a] : a \in PtrLimbSamples \X PtrLimbSamples}

\* The usize indices: small ones, ones whose offset passes 2^32, ones whose
\* product with the element size passes 2^64
IdxSamples == {0, 1, 2, 65535} \X {0, 1, 16384} \X {0, 1} \X {0, 65535}

ArithIdle ==
    /\ ar_op = "none"
    /\ ar_in = [ptr |-> [address |-> <<0, 0>>], i |-> Zero64, size |-> 1,
                build |-> "release"]
    /\ ar_out = [kind |-> "none"]

\* The operands are drawn before the operation is applied
ArithInit ==
    /\ ar_op = "none"
    /\ ar_in \in [ptr : PtrSamples, i : IdxSamples, size : SizeOfT,
                  build : Builds]
    /\ ar_out = [kind |-> "none"]

At ==
    /\ ar_op = "none"
    /\ ar_op' = "at"
    /\ ar_out' = at(ar_in.ptr, ar_in.i, ar_in.size, ar_in.build)
    /\ UNCHANGED ar_in

Add ==
    /\ ar_op = "none"
    /\ ar_op' = "add"
    /\ ar_out' = add(ar_in.ptr, ar_in.i, ar_in.size, ar_in.build)
    /\ UNCHANGED ar_in

Sub ==
    /\ ar_op = "none"
    /\ ar_op' = "sub"
    /\ ar_out' = sub(ar_in.ptr, ar_in.i, ar_in.size, ar_in.build)
    /\ UNCHANGED ar_in

ArithNext ==
    \/ At
    \/ Add
    \/ Sub

----------------------------------------------------------------------------
(* Win32Process: main_module_info and module_info(name)                    *)

MaxModules == 3

\* Module base addresses 0x40_0000 and 0x80_0000
ModuleBases == {4194304, 8388608}

\* proc_info.section_base: one of the bases, or the base of no module
SectionBases == ModuleBases \cup {12582912}

ModuleNames == {"app.exe", "ntdll.dll"}

\* Names asked for: names are compared as they are, case included
AskedNames == ModuleNames \cup {"APP.EXE"}

\* The ModuleInfo records of a list whose k-th entry has base and name bn[k];
\* address is the list entry the record was read from
ModuleInfos(bn) ==
    [k \in 1..Len(bn) |->
        [address |-> 16 * k, base |-> bn[k][1], name |-> bn[k][2]]]

\* What Process::module_list() returns: the modules in list order, or the
\* error of the walk
ModuleLists ==
    {[kind |-> "Err", err |-> "Other"]} \cup
    {[kind |-> "Ok", list |-> ModuleInfos(bn)] :
        bn \in UNION {[1..n -> ModuleBases \X ModuleNames] : n \in 0..MaxModules}}

\* A lookup that only looks at the first module of the list
iter_find_first_only(list, accepts) ==
    IF list # <<>> /\ accepts[1] THEN <<list[1]>> ELSE <<>>

\* Iterator::find: the first element, in order, the predicate accepts;
\* accepts[k] is what the predicate returns on list[k]
iter_find(list, accepts) ==
    IF \E k \in 1..Len(list) : accepts[k]
    THEN LET k == CHOOSE k \in 1..Len(list) :
                      /\ accepts[k]
                      /\ \A j \in 1..(k - 1) : ~accepts[j]
         IN  <<list[k]>>
    ELSE <<>>

\* Option::ok_or(Error::ModuleInfo)
ok_or_ModuleInfo(o) ==
    IF o = <<>>
    THEN [kind |-> "Err", err |-> "ModuleInfo"]
    ELSE [kind |-> "Ok", module |-> o[1]]

\* process.rs:437-444
main_module_info(ml, sb) ==
    IF ml.kind = "Err"
    THEN ml
    ELSE ok_or_ModuleInfo(
             iter_find(ml.list,
                       [k \in 1..Len(ml.list) |-> ml.list[k].base = sb]))

\* process.rs:446-453
module_info_by_name(ml, name) ==
    IF ml.kind = "Err"
    THEN ml
    ELSE ok_or_ModuleInfo(
             iter_find(ml.list,
                       [k \in 1..Len(ml.list) |-> ml.list[k].name = name]))

ModsIdle ==
    /\ module_list = [kind |-> "Ok", list |-> <<>>]
    /\ section_base = 0
    /\ mcall = [op |-> "none"]

ModsInit ==
    /\ module_list \in ModuleLists
    /\ section_base \in SectionBases
    /\ mcall = [op |-> "none"]

MainModuleInfo ==
    /\ mcall' = [op |-> "main_module_info",
                 ret |-> main_module_info(module_list, section_base)]
    /\ UNCHANGED <<module_list, section_base>>

ModuleInfoByName ==
    \E name \in AskedNames :
        /\ mcall' = [op |-> "module_info", name |-> name,
                     ret |-> module_info_by_name(module_list, name)]
        /\ UNCHANGED <<module_list, section_base>>

ModsNext ==
    \/ MainModuleInfo
    \/ ModuleInfoByName

----------------------------------------------------------------------------
(* Win32Process::module_address_list_callback: the walk over both lists    *)

\* The target_arch argument: None, or Some of an architecture
TargetArchs == {<<>>, <<"x64">>, <<"x86">>}

\* process.rs:270-279, the infos array
infos_array(pi) ==
    << <<(<<pi.module_info_native>>), pi.sys_arch>>,
       <<pi.module_info_wow64, pi.proc_arch>> >>

\* process.rs:285-291: the filter on the architecture
arch_filter(e, ta) == IF ta # <<>> THEN e[2] = ta[1] ELSE TRUE

\* process.rs:282-293: filter on target_arch, then filter_map drops a list
\* that does not exist
module_infos_iter(pi, ta) ==
    LET kept == SelectSeq(infos_array(pi),
                          LAMBDA e : arch_filter(e, ta) /\ e[1] # <<>>)
    IN  [k \in 1..Len(kept) |-> <<kept[k][1][1], kept[k][2]>>]

\* module_address_list_callback has not been called
ListsIdle ==
    /\ target_arch = <<>>
    /\ module_infos = <<>>
    /\ cur_arch = "none"
    /\ false_seen = FALSE
    /\ lresult = "off"

\* process.rs:266-269: the call on a process, its two lists headed at HeadAddr
\* and at EntryAddr, with a callback that decides for itself
ListsInit ==
    /\ vmem \in [ListAddrs -> LinkValues \cup {Unmapped}]
    /\ module_base = NoAddr
    /\ cbkind = "user"
    /\ wpc = "off"
    /\ list_entry = NoAddr
    /\ iter = 0
    /\ ncalls = 0
    /\ nreads = 0
    /\ lastcb = NoAddr
    /\ lastret = TRUE
    /\ lastread = NoAddr
    /\ passed = [a \in LinkValues |-> 0]
    /\ wresult = "none"
    /\ \E w \in {0, 28672} :
           proc_info = <<process_info_from_eprocess(w, HeadAddr, EntryAddr)>>
    /\ pcall = [op |-> "none"]
    /\ target_arch \in TargetArchs
    /\ module_infos = module_infos_iter(proc_info[1], target_arch)
    /\ cur_arch = "none"
    /\ false_seen = FALSE
    /\ lresult = "none"

\* The walk of the previous list, if any, has returned Ok(())
PreviousWalkOk == wpc = "off" \/ (wpc = "done" /\ wresult = "Ok")

\* process.rs:393-396: the for loop takes the next (info, arch) and calls
\* info.module_entry_list_callback, which starts at info.module_base
\* (process.rs:91) with the same callback
ListsNextInfo ==
    /\ lresult = "none"
    /\ PreviousWalkOk
    /\ module_infos # <<>>
    /\ module_infos' = Tail(module_infos)
    /\ cur_arch' = module_infos[1][2]
    /\ false_seen' = (false_seen \/ (wpc = "done" /\ lastret = FALSE))
    /\ module_base' = module_infos[1][1].module_base
    /\ list_entry' = module_base'
    /\ iter' = 0
    /\ ncalls' = 0
    /\ nreads' = 0
    /\ lastcb' = NoAddr
    /\ lastret' = TRUE
    /\ lastread' = NoAddr
    /\ passed' = [a \in LinkValues |-> 0]
    /\ wpc' = "loop"
    /\ wresult' = "none"
    /\ UNCHANGED <<vmem, cbkind, target_arch, lresult>>

\* process.rs:396: `?` returns the error of a walk
ListsWalkFailed ==
    /\ lresult = "none"
    /\ wpc = "done"
    /\ wresult = "Err"
    /\ lresult' = "Err"
    /\ UNCHANGED <<walkVars, target_arch, module_infos, cur_arch, false_seen>>

\* process.rs:398: the iterator is exhausted, Ok(())
ListsReturn ==
    /\ lresult = "none"
    /\ PreviousWalkOk
    /\ module_infos = <<>>
    /\ lresult' = "Ok"
    /\ UNCHANGED <<walkVars, target_arch, module_infos, cur_arch, false_seen>>

ListsNext ==
    \/ WalkNext /\ UNCHANGED listsVars
    \/ ListsNextInfo
    \/ ListsWalkFailed
    \/ ListsReturn

----------------------------------------------------------------------------
(* Specifications                                                          *)

Init ==
    /\ WalkInit /\ PageIdle /\ FindIdle /\ ProcIdle /\ PtrIdle
    /\ ArithIdle /\ ModsIdle /\ ListsIdle

Next ==
    WalkNext /\ UNCHANGED <<pageVars, findVars, procVars, ptrVars, arithVars,
                            modsVars, listsVars>>

Spec == Init /\ [][Next]_vars

\* The walk is a sequential loop: while an iteration is possible it is taken.
FairSpec == Spec /\ WF_vars(Next)

SpecPageNext ==
    CheckPage /\ UNCHANGED <<walkVars, findVars, procVars, ptrVars, arithVars,
                             modsVars, listsVars>>

SpecPageInit ==
    /\ WalkIdle /\ PageInit /\ FindIdle /\ ProcIdle /\ PtrIdle
    /\ ArithIdle /\ ModsIdle /\ ListsIdle

SpecPage == SpecPageInit /\ [][SpecPageNext]_vars

SpecShortNext ==
    CheckPage /\ UNCHANGED <<walkVars, findVars, procVars, ptrVars, arithVars,
                             modsVars, listsVars>>

SpecShortInit ==
    /\ WalkIdle /\ ShortInit /\ FindIdle /\ ProcIdle /\ PtrIdle
    /\ ArithIdle /\ ModsIdle /\ ListsIdle

SpecShort == SpecShortInit /\ [][SpecShortNext]_vars

SpecFindNext ==
    FindNext /\ UNCHANGED <<walkVars, pageVars, procVars, ptrVars, arithVars,
                            modsVars, listsVars>>

SpecFindInit ==
    /\ WalkIdle /\ PageIdle /\ FindInit /\ ProcIdle /\ PtrIdle
    /\ ArithIdle /\ ModsIdle /\ ListsIdle

SpecFind == SpecFindInit /\ [][SpecFindNext]_vars

SpecProcNext ==
    ProcNext /\ UNCHANGED <<walkVars, pageVars, findVars, ptrVars, arithVars,
                            modsVars, listsVars>>

SpecProcInit ==
    /\ WalkIdle /\ PageIdle /\ FindIdle /\ ProcIdle /\ PtrIdle
    /\ ArithIdle /\ ModsIdle /\ ListsIdle

SpecProc == SpecProcInit /\ [][SpecProcNext]_vars

SpecPtrNext ==
    PtrNext /\ UNCHANGED <<walkVars, pageVars, findVars, procVars, arithVars,
                           modsVars, listsVars>>

SpecPtrInit ==
    /\ WalkIdle /\ PageIdle /\ FindIdle /\ ProcIdle /\ PtrIdle
    /\ ArithIdle /\ ModsIdle /\ ListsIdle

SpecPtr == SpecPtrInit /\ [][SpecPtrNext]_vars

SpecArithNext ==
    ArithNext /\ UNCHANGED <<walkVars, pageVars, findVars, procVars, ptrVars,
                             modsVars, listsVars>>

SpecArithInit ==
    /\ WalkIdle /\ PageIdle /\ FindIdle /\ ProcIdle /\ PtrIdle
    /\ ArithInit /\ ModsIdle /\ ListsIdle

SpecArith == SpecArithInit /\ [][SpecArithNext]_vars

SpecModsNext ==
    ModsNext /\ UNCHANGED <<walkVars, pageVars, findVars, procVars, ptrVars,
                            arithVars, listsVars>>

SpecModsInit ==
    /\ WalkIdle /\ PageIdle /\ FindIdle /\ ProcIdle /\ PtrIdle
    /\ ArithIdle /\ ModsInit /\ ListsIdle

SpecMods == SpecModsInit /\ [][SpecModsNext]_vars

SpecListsNext ==
    ListsNext /\ UNCHANGED <<pageVars, findVars, procVars, ptrVars, arithVars,
                             modsVars>>

SpecListsInit ==
    /\ ListsInit /\ PageIdle /\ FindIdle /\ PtrIdle /\ ArithIdle /\ ModsIdle

SpecLists == SpecListsInit /\ [][SpecListsNext]_vars

----------------------------------------------------------------------------
(* Claims about the list walk                                              *)

\* The claim's stop condition at a(k) = a, on which the callback returned ret
StopsAfter(a, ret, k) ==
    \/ ret = FALSE
    \/ /\ virt_read_addr_arch(a) # Unmapped
       /\ \/ virt_read_addr_arch(a) = 0
          \/ virt_read_addr_arch(a) % 8 # 0
          \/ virt_read_addr_arch(a) = module_base
    \/ k + 1 = MAX_ITER_COUNT

\* C1: the addresses handed to the callback are, in order, a prefix of the
\* Flink chain a0 = module_base, a(k+1) = Flink(a(k)): every invocation gets
\* the Flink of the address of the invocation before it, a further invocation
\* happens only when no stop condition held at the previous address, the only
\* address read is the one the callback has just accepted, and a walk that
\* returns Ok has stopped exactly at the first a(k) with a stop condition.
C1_CallbacksArePrefixOfFlinkChain ==
    [][ /\ (ncalls' # ncalls =>
              /\ ncalls' = ncalls + 1
              /\ lastcb' = (IF ncalls = 0 THEN module_base
                                          ELSE virt_read_addr_arch(lastcb))
              /\ (ncalls > 0 =>
                     /\ ~StopsAfter(lastcb, lastret, ncalls - 1)
                     /\ lastread = lastcb
                     /\ nreads = ncalls))
        /\ (nreads' # nreads =>
              /\ nreads' = nreads + 1
              /\ ncalls' = ncalls + 1
              /\ lastret'
              /\ lastread' = lastcb')
        /\ (wresult = "none" /\ wresult' = "Ok" =>
              /\ ncalls' > 0
              /\ StopsAfter(lastcb', lastret', ncalls' - 1))
      ]_vars

\* C1 witness: a walk over two entries that ended on a misaligned Flink
C1_Witness ==
    /\ wpc = "done"
    /\ wresult = "Ok"
    /\ ncalls = 2
    /\ lastcb # module_base
    /\ virt_read_addr_arch(lastcb) = MisalignedLink

\* C2: the list head module_base is never handed to the callback, and for the
\* head H with the single entry E, E.Flink = H | 0b100, a finished walk has
\* made exactly one callback, with E.
C2_HeadIsNeverAnEntry ==
    /\ passed[module_base] = 0
    /\ (/\ wpc = "done"
        /\ module_base = HeadAddr
        /\ vmem[HeadAddr] = EntryAddr
        /\ vmem[EntryAddr] = MisalignedLink
        => ncalls = 1 /\ lastcb = EntryAddr)

\* C3: one walk makes at most MAX_ITER_COUNT callback invocations and at most
\* MAX_ITER_COUNT Flink reads, whatever the memory holds and whatever the
\* callback answers, and it terminates.
C3_WalkIsBounded ==
    /\ [](ncalls <= MAX_ITER_COUNT /\ nreads <= MAX_ITER_COUNT)
    /\ <>(wpc = "done")

\* C3 witness: a chain that cycles without returning to module_base, walked
\* with a callback that always returned true, to the bound
C3_Witness ==
    /\ wpc = "done"
    /\ ncalls = MAX_ITER_COUNT
    /\ nreads = MAX_ITER_COUNT
    /\ lastret
    /\ virt_read_addr_arch(lastcb) = lastcb
    /\ lastcb # module_base

\* C4: the walk returns an error exactly when a Flink read failed; the error
\* ends the walk at once (the callback's last invocation is the one before
\* the failing read); a walk ended by a null, misaligned or module_base Flink,
\* by the callback or by the bound returns Ok.
C4_ErrorIffReadFails ==
    /\ (wresult = "Err") <=>
          (lastread # NoAddr /\ virt_read_addr_arch(lastread) = Unmapped)
    /\ (wresult = "Err" => wpc = "done" /\ lastcb = lastread /\ ncalls = nreads)
    /\ (wpc = "done" /\ StopsAfter(lastcb, lastret, ncalls - 1) => wresult = "Ok")

\* C4 witness: the second Flink read of a walk failed
C4_Witness ==
    /\ wresult = "Err"
    /\ nreads = 2
    /\ ncalls = 2

----------------------------------------------------------------------------
(* Claims about check_page                                                 *)

\* Byte j of the number addr + (i << 12) + 0x1001 (below 2^31)
SignatureByte(addr, i, j) ==
    IF j < 4 THEN ((addr + i * 4096 + 4097) \div (256 ^ j)) % 256 ELSE 0

\* C5: on a full page, check_page(addr, page) is true exactly when each of
\* the first four little-endian quadwords holds addr + (i << 12) + 0x1001
\* and every byte of the remaining quadwords is zero.
C5_CheckPageIsExact ==
    cp_pc = "done" =>
        (cp_ret <=>
            /\ \A i \in 0..3 : \A j \in 0..7 :
                   SliceByte(cp_mem, 8 * i + j) = SignatureByte(cp_addr, i, j)
            /\ \A o \in 32 .. page_size - 1 : SliceByte(cp_mem, o) = 0)

\* C5 witness: a page carrying the signature of its address was accepted
C5_Witness ==
    /\ cp_pc = "done"
    /\ cp_ret = TRUE
    /\ cp_addr = 1703936
    /\ cp_mem.len = page_size
    /\ SliceByte(cp_mem, 0) = 1 /\ SliceByte(cp_mem, 1) = 16 /\ SliceByte(cp_mem, 2) = 26
    /\ SliceByte(cp_mem, 25) = 64

\* A page that differs from the signature in the last quadword only is rejected
C5_WitnessRejected ==
    /\ cp_pc = "done"
    /\ cp_ret = FALSE
    /\ cp_mem.pages[0] = [sig |-> cp_addr, stride |-> 4096, edit |-> <<511, "one">>]

----------------------------------------------------------------------------
(* Claims about find                                                       *)

\* Page k of the image is a whole page that holds the PAE signature of its
\* address: four quadwords addr + (i << 12) + 0x1001, then zeros
HoldsSignature(img, k) ==
    /\ (k + 1) * page_size <= img.len
    /\ \A i \in 0..3 : \A j \in 0..7 :
           SliceByte(img, k * page_size + 8 * i + j)
               = SignatureByte(k * page_size, i, j)
    /\ \A o \in 32 .. page_size - 1 : SliceByte(img, k * page_size + o) = 0

SignaturePages(img) ==
    {k \in 0 .. NumChunks(img) - 1 : HoldsSignature(img, k)}

LowestOf(S) == CHOOSE k \in S : \A m \in S : k <= m

\* C6: find hands the chunks to check_page once each in increasing address
\* order from 0, returns StartBlock{X86Pae, dtb: a, kernel_hint: 0} for the
\* lowest page address a whose page holds the signature, and returns the
\* Initialization error exactly when no page of the image holds it.
C6_FindReturnsLowestSignaturePage ==
    /\ (fvisited > 0 => flast = (fvisited - 1) * page_size)
    /\ (fpc = "done" =>
          IF SignaturePages(image) = {}
          THEN fresult = [kind |-> "Err", err |-> "Initialization"]
          ELSE fresult = [kind |-> "Ok", arch |-> "X86Pae", kernel_hint |-> 0,
                          dtb |-> LowestOf(SignaturePages(image)) * page_size])

\* C7: a returned StartBlock has dtb < 16 MiB, and find fails when no page
\* below 16 MiB holds the signature although a page at or above 16 MiB does.
C7_DiscoveryBoundedToLowStub ==
    fpc = "done" =>
        /\ (fresult.kind = "Ok" => fresult.dtb < LowStubSize)
        /\ ((/\ \E k \in SignaturePages(image) : k * page_size >= LowStubSize
             /\ \A k \in SignaturePages(image) : k * page_size >= LowStubSize)
            => fresult = [kind |-> "Err", err |-> "Initialization"])

\* The quadword at byte offset off of the image is the number v (below 2^31)
QuadIs(img, off, v) ==
    \A j \in 0..7 :
        SliceByte(img, off + j) = (IF j < 4 THEN (v \div (256 ^ j)) % 256 ELSE 0)

\* A 16 MiB image, all zeros except the page at 0x1A0000, which holds the
\* quadwords q[1..4] and zeros after them
LowStubScenario(q) ==
    /\ image.len = LowStubSize
    /\ DOMAIN image.pages = {416}
    /\ \A i \in 0..3 : QuadIs(image, 1703936 + 8 * i, q[i + 1])
    /\ \A o \in 32 .. page_size - 1 : SliceByte(image, 1703936 + o) = 0

\* C8 as stated: with the quadwords {0x1A1001, 0x1A3001, 0x1A5001, 0x1A7001}
\* at PA 0x1A0000, find returns StartBlock{X86Pae, dtb: 0x1A0000, kernel_hint: 0}.
C8_ScenarioAsStated ==
    fpc = "done" /\ LowStubScenario(<<1708033, 1716225, 1724417, 1732609>>)
        => fresult = [kind |-> "Ok", arch |-> "X86Pae", kernel_hint |-> 0,
                      dtb |-> 1703936]

\* C8 amended: with the quadwords 0x1A0000 + (i << 12) + 0x1001, that is
\* {0x1A1001, 0x1A2001, 0x1A3001, 0x1A4001}, at PA 0x1A0000 of an otherwise
\* zero 16 MiB image, find returns StartBlock{X86Pae, dtb: 0x1A0000,
\* kernel_hint: 0}.
C8_LowStubScenario ==
    fpc = "done" /\ LowStubScenario(<<1708033, 1712129, 1716225, 1720321>>)
        => fresult = [kind |-> "Ok", arch |-> "X86Pae", kernel_hint |-> 0,
                      dtb |-> 1703936]

\* C8 witness: find has finished on the amended scenario image
C8_Witness ==
    /\ fpc = "done"
    /\ LowStubScenario(<<1708033, 1712129, 1716225, 1720321>>)
    /\ fvisited = 417

----------------------------------------------------------------------------
(* Claims about Win32ProcessInfo                                           *)

----------------------------------------------------------------------------
(* Claims about Pointer32                                                  *)

\* C10: Pointer32::try_from(x), for x a u64 or an Address, succeeds exactly
\* when x <= 0xFFFF_FFFF (the upper 32 bits of x are zero); on success the
\* pointer's as_u64() is x, otherwise the result is the Bounds error and
\* holds no pointer.
C10_TryFromFitsOrBounds ==
    ptr_op \in {"try_from_u64", "try_from_address"} =>
        /\ (ptr_out.kind = "Ok") <=> (ptr_in[3] = 0 /\ ptr_in[4] = 0)
        /\ (ptr_out.kind = "Ok" => Pointer32_as_u64(ptr_out.ptr) = ptr_in)
        /\ (ptr_out.kind # "Ok" => ptr_out = [kind |-> "Err", err |-> "Bounds"])

\* C10 witness: try_from(0x1_0000_0000u64) has failed
C10_Witness ==
    /\ ptr_op = "try_from_u64"
    /\ ptr_in = <<0, 0, 1, 0>>
    /\ ptr_out.kind = "Err"

----------------------------------------------------------------------------
(* Claims about Pointer32 arithmetic                                       *)

\* ptr.as_u64() + i * sizeof(T) as an exact integer: five limbs, the fifth
\* holding whatever passes 2^64
ExactSum(p, i, size) ==
    LET e1 == p.address[1] + i[1] * size
        e2 == p.address[2] + i[2] * size + e1 \div Limb
        e3 == i[3] * size + e2 \div Limb
        e4 == i[4] * size + e3 \div Limb
    IN  <<e1 % Limb, e2 % Limb, e3 % Limb, e4 % Limb, e4 \div Limb>>

\* The exact sum is at most 0xFFFF_FFFF
InPointerRange(e) == e[3] = 0 /\ e[4] = 0 /\ e[5] = 0

\* The pointer's as_u64() is the exact integer e
IsExactly(p, e) ==
    e[5] = 0 /\ Pointer32_as_u64(p) = <<e[1], e[2], e[3], e[4]>>

\* C11 as stated: for every pointer and every index, at(i) returns a pointer
\* whose as_u64() is the exact integer ptr.as_u64() + i * sizeof(T).
C11_AtIsExactSum ==
    ar_op = "at" =>
        /\ ar_out.kind = "Ok"
        /\ IsExactly(ar_out.ptr, ExactSum(ar_in.ptr, ar_in.i, ar_in.size))

\* C11: whenever ptr.as_u64() + i * sizeof(T) is at most 0xFFFF_FFFF, at(i)
\* returns the pointer whose as_u64() is exactly that sum; beyond that range
\* at(i) either panics (only in a build with overflow checks) or returns the
\* pointer at the sum reduced modulo 2^32.
C11_AtIsExactSumInRange ==
    ar_op = "at" =>
        LET e == ExactSum(ar_in.ptr, ar_in.i, ar_in.size)
        IN  /\ (InPointerRange(e) =>
                  ar_out.kind = "Ok" /\ IsExactly(ar_out.ptr, e))
            /\ (ar_out.kind = "Ok" => ar_out.ptr.address = <<e[1], e[2]>>)
            /\ (ar_out.kind # "Ok" =>
                  ar_out = Panic /\ ar_in.build = "debug")

\* C11 witness: the pointer at 0x1000 to u32 elements, at(2), is at 0x1008
C11_Witness ==
    /\ ar_op = "at"
    /\ ar_in.ptr = [address |-> <<4096, 0>>]
    /\ ar_in.i = <<2, 0, 0, 0>>
    /\ ar_in.size = 4
    /\ ar_out = [kind |-> "Ok", ptr |-> [address |-> <<4104, 0>>]]

\* min(e, 0xFFFF_FFFF) as a u64
SaturatedSum(e) ==
    IF InPointerRange(e) THEN <<e[1], e[2], 0, 0>> ELSE u32_max_as_u64

\* C12: ptr + i never aborts and returns the pointer whose as_u64() is
\* min(ptr.as_u64() + i * sizeof(T), 0xFFFF_FFFF), so the result is never
\* below ptr.
C12_AddSaturates ==
    ar_op = "add" =>
        /\ ar_out.kind = "Ok"
        /\ Pointer32_as_u64(ar_out.ptr) =
              SaturatedSum(ExactSum(ar_in.ptr, ar_in.i, ar_in.size))
        /\ le64(Pointer32_as_u64(ar_in.ptr), Pointer32_as_u64(ar_out.ptr))

----------------------------------------------------------------------------
(* Claims about main_module_info and module_info(name)                     *)

\* ret is what a lookup by equality returns on list, keys[k] being the key
\* of list[k]: Ok with the module at the first position whose key is the
\* wanted one, wherever that position is, and Error::ModuleInfo exactly when
\* no position has the wanted key
FirstEqual(list, keys, wanted, ret) ==
    LET hits == {k \in 1..Len(list) : keys[k] = wanted}
    IN  /\ (ret = [kind |-> "Err", err |-> "ModuleInfo"]) <=> (hits = {})
        /\ (hits # {} =>
              \E k \in hits :
                  /\ \A j \in hits : k <= j
                  /\ ret = [kind |-> "Ok", module |-> list[k]])

\* C13: on every module list, main_module_info() returns the first module in
\* list order whose base is proc_info.section_base and module_info(name) the
\* first module whose name is name, wherever in the list it sits; each
\* returns Error::ModuleInfo if and only if no module of the list satisfies
\* the equality.
C13_LookupByEquality ==
    module_list.kind = "Ok" =>
        LET list == module_list.list
        IN  /\ (mcall.op = "main_module_info" =>
                  FirstEqual(list, [k \in 1..Len(list) |-> list[k].base],
                             section_base, mcall.ret))
            /\ (mcall.op = "module_info" =>
                  FirstEqual(list, [k \in 1..Len(list) |-> list[k].name],
                             mcall.name, mcall.ret))

\* C13 witness: main_module_info() has returned a module that is not the
\* first of the list, and that is not the only one with that base
C13_Witness ==
    /\ module_list.kind = "Ok"
    /\ Len(module_list.list) = 3
    /\ mcall.op = "main_module_info"
    /\ mcall.ret.kind = "Ok"
    /\ mcall.ret.module = module_list.list[2]
    /\ module_list.list[3].base = section_base

----------------------------------------------------------------------------
(* Claims about module_address_list_callback                               *)

\* C14: within one call of module_address_list_callback, once the callback
\* has returned false it is not invoked again: after a false returned during
\* the walk of one list, no later list is walked with the callback.
C14_CallbackNotInvokedAfterFalse ==
    false_seen => ncalls = 0

----------------------------------------------------------------------------
(* Claims about check_page on short buffers                                *)

\* C15: check_page returns false on every buffer shorter than 32 bytes, the
\* empty buffer included, whatever addr is.
C15_ShortBufferRejected ==
    (cp_pc = "done" /\ cp_mem.len < 32) => cp_ret = FALSE

=============================================================================
